---- MODULE Spec2Model ----
(***************************************************************************)
(* Request dispatch of the crypto-exchange-api clients: construction and   *)
(* credentials, the per-second rate limiter, the nonce of private calls,   *)
(* the credential check, argument validation and the normalisation of HTTP *)
(* responses, for the Poloniex client (src/src/poloniex.js), the Bitfinex  *)
(* v1 client (src/src/bitfinex.js on top of src/src/api.js) and the        *)
(* constructor of the Bittrex client.                                      *)
(***************************************************************************)
EXTENDS Integers, Sequences, FiniteSets, TLC

VARIABLES
    bench,             \* a limiter of each class run directly on arrays of its own
    env,               \* process.env: the credentials variables of the exchange
    construction,      \* the arguments and the environment of `new <Exchange>(..)`
    exchange,          \* which client class the instance is: "poloniex" | "bitfinex" | "bittrex"
    key,               \* this.key    (Undefined when not configured)
    secret,            \* this.secret (Undefined when not configured)
    tradingRate,       \* this.tradingRate, a rational [n, d]
    publicRateCount,   \* this._publicRateCount  (Poloniex only)
    tradingRateCount,  \* this._tradingRateCount
    now,               \* the millisecond clock read by Date.now()
    calls,             \* every call issued so far, in issuance order
    microtasks         \* FIFO of calls suspended at `await this._checkRateLimit(..)`

vars == <<bench, env, construction, exchange, key, secret, tradingRate, publicRateCount, tradingRateCount,
          now, calls, microtasks>>

----------------------------------------------------------------------------
(* Program constants *)

\* the trailing window of both rate limiters, in ms
RateWindowMs == 1000

\* the factor applied to the timestamp in a nonce
NonceScale == 100

\* the limit Poloniex._get passes to _checkRateLimit
PublicRate == 6

\* Poloniex: this.tradingRate = tradingRate || 6
PoloniexDefaultRate == 6

\* Bitfinex: this.tradingRate = tradingRate || (90 / 60)
BitfinexDefaultRateNum == 90

BitfinexDefaultRateDen == 60

\* the largest status code API._resErrorMessage lets through
MaxOkStatus == 299

----------------------------------------------------------------------------
(* Bounds of the model *)

\* the first value of the clock
T0 == 1000

\* calls issued in the concurrent specification
MaxCalls == 3

\* calls beyond the limit of the class in the sequential specification
ExtraCalls == 2

\* the trading rate of the many-calls-per-millisecond specification
HighRate == 102

\* calls issued in the specification of the environment
EnvCalls == 2

\* calls beyond the limit of each class in the specification of mixed calls
MixedExtra == 1

\* direct calls of the limiters
BenchCalls == 5

\* private calls of the signing caller
SignCalls == 3

\* calls of the caller whose requests all end
LiveCalls == 2

\* calls on the client with the default tradingRate
DefaultCalls == 3

----------------------------------------------------------------------------
(* Values *)

\* JavaScript's undefined, for an optional string
Undefined == "<undefined>"

Rate(n, d) == [n |-> n, d |-> d]

\* n <= limit, for a rational limit
AtMost(n, limit) == n * limit.d <= limit.n

\* String(limit) of a rational limit, as the template literals print it
RateText(limit) ==
    IF limit.n % limit.d = 0
    THEN ToString(limit.n \div limit.d)
    ELSE IF (10 * limit.n) % limit.d = 0
         THEN ToString(limit.n \div limit.d) \o "."
                 \o ToString(((10 * limit.n) \div limit.d) % 10)
         ELSE ToString(limit.n) \o "/" \o ToString(limit.d)

\* Array.prototype.filter with the predicate "d > bound"
FilterNewer(rates, bound) == SelectSeq(rates, LAMBDA d : d > bound)

\* Array.prototype.filter(d => ts === d).length
CountEqual(rates, ts) == Len(SelectSeq(rates, LAMBDA d : d = ts))

----------------------------------------------------------------------------
(* Rate limiters *)

\* Poloniex._checkRateLimit with `rates.length < limit` for the comparison
PoloniexCheckRateLimitOffByOne(ts, limit, rates) ==
    LET pushed   == Append(rates, ts)
        filtered == FilterNewer(pushed, ts - RateWindowMs)
    IN  [rates |-> pushed, admitted |-> ~AtMost(limit.n, [n |-> Len(filtered), d |-> limit.d])]

\* Poloniex._checkRateLimit with `d >= ts - 1000` for the filter
PoloniexCheckRateLimitInclusive(ts, limit, rates) ==
    LET pushed   == Append(rates, ts)
        filtered == FilterNewer(pushed, ts - RateWindowMs - 1)
    IN  [rates |-> pushed, admitted |-> AtMost(Len(filtered), limit)]

\* Poloniex._checkRateLimit that records the timestamp of an admitted attempt only
PoloniexCheckRateLimitAdmittedOnly(ts, limit, rates) ==
    LET pushed   == Append(rates, ts)
        filtered == FilterNewer(pushed, ts - RateWindowMs)
    IN  [rates |-> IF AtMost(Len(filtered), limit) THEN pushed ELSE rates,
         admitted |-> AtMost(Len(filtered), limit)]

\* Poloniex._checkRateLimit: the pushed timestamp stays in the instance's array;
\* the filtered copy is bound to the local name only. Returns the array after the
\* call and the boolean returned.
PoloniexCheckRateLimit(ts, limit, rates) ==
    LET pushed   == Append(rates, ts)
        filtered == FilterNewer(pushed, ts - RateWindowMs)
    IN  [rates |-> pushed, admitted |-> AtMost(Len(filtered), limit)]

\* Array.prototype.find(d => ts - 1000 < d): the index of the first such entry, 0 if none
FindEdgeIndex(rates, ts) ==
    LET hits == {i \in 1..Len(rates) : ts - RateWindowMs < rates[i]}
    IN  IF hits = {} THEN 0 ELSE CHOOSE i \in hits : \A j \in hits : i <= j

\* Array.prototype.indexOf(v), 1-based; 0 if absent
IndexOf(rates, v) ==
    LET hits == {i \in 1..Len(rates) : rates[i] = v}
    IN  IF hits = {} THEN 0 ELSE CHOOSE i \in hits : \A j \in hits : i <= j

\* API._checkRateLimit with `ts - 1000 <= d` for the test of find
ApiCheckRateLimitInclusive(ts, limit, rates) ==
    LET pushed == Append(rates, ts)
        hits   == {i \in 1..Len(pushed) : ts - RateWindowMs <= pushed[i]}
        e      == CHOOSE i \in hits : \A j \in hits : i <= j
        edge   == pushed[e]
        kept   == IF edge # 0
                  THEN SubSeq(pushed, IndexOf(pushed, edge), Len(pushed))
                  ELSE pushed
    IN  [rates |-> kept, admitted |-> AtMost(Len(kept), limit)]

\* API._checkRateLimit with `rates.indexOf(edge) + 1` for the number of entries spliced
ApiCheckRateLimitSpliceOneMore(ts, limit, rates) ==
    LET pushed == Append(rates, ts)
        e      == FindEdgeIndex(pushed, ts)
        edge   == IF e = 0 THEN 0 ELSE pushed[e]
        kept   == IF e # 0 /\ edge # 0
                  THEN SubSeq(pushed, IndexOf(pushed, edge) + 1, Len(pushed))
                  ELSE pushed
    IN  [rates |-> kept, admitted |-> AtMost(Len(kept), limit)]

\* API._checkRateLimit without the splice
ApiCheckRateLimitNoSplice(ts, limit, rates) ==
    [rates |-> Append(rates, ts), admitted |-> AtMost(Len(rates) + 1, limit)]

\* API._checkRateLimit that records the timestamp of an admitted attempt only
ApiCheckRateLimitAdmittedOnly(ts, limit, rates) ==
    LET pushed == Append(rates, ts)
        e      == FindEdgeIndex(pushed, ts)
        edge   == IF e = 0 THEN 0 ELSE pushed[e]
        kept   == IF e # 0 /\ edge # 0
                  THEN SubSeq(pushed, IndexOf(pushed, edge), Len(pushed))
                  ELSE pushed
    IN  [rates |-> IF AtMost(Len(kept), limit) THEN kept
                   ELSE SubSeq(kept, 1, Len(kept) - 1),
         admitted |-> AtMost(Len(kept), limit)]

\* API._checkRateLimit: push, find the first unexpired entry, splice what precedes
\* its first occurrence (only when that entry is truthy), compare the length.
ApiCheckRateLimit(ts, limit, rates) ==
    LET pushed == Append(rates, ts)
        e      == FindEdgeIndex(pushed, ts)
        edge   == IF e = 0 THEN 0 ELSE pushed[e]
        kept   == IF e # 0 /\ edge # 0
                  THEN SubSeq(pushed, IndexOf(pushed, edge), Len(pushed))
                  ELSE pushed
    IN  [rates |-> kept, admitted |-> AtMost(Len(kept), limit)]

----------------------------------------------------------------------------
(* JSON values, as JSON.parse builds them *)

JString(s) == [type |-> "string", str |-> s]

JNumber(n) == [type |-> "number", num |-> n]

JBool(b) == [type |-> "boolean", bool |-> b]

JNull == [type |-> "null"]

JUndefined == [type |-> "undefined"]

JArray == [type |-> "array"]

\* an object: its own properties as a sequence of <<name, value>>
JObject(fields) == [type |-> "object", fields |-> fields]

\* what JSON.parse throws on text that is not JSON
JSyntaxError == [type |-> "SyntaxError"]

\* JSON.parse on the response bodies of the model
JsonParse(text) ==
    CASE text = "{}" -> JObject(<<>>)
      [] text = "{\"foo\":\"bar\"}" -> JObject(<< <<"foo", JString("bar")>> >>)
      [] text = "{\"error\":\"X\"}" -> JObject(<< <<"error", JString("X")>> >>)
      [] text = "{\"error\":\"Not found\"}" ->
             JObject(<< <<"error", JString("Not found")>> >>)
      [] text = "{\"error\":\"\"}" -> JObject(<< <<"error", JString("")>> >>)
      [] text = "{\"error\":0}" -> JObject(<< <<"error", JNumber(0)>> >>)
      [] text = "{\"error\":false}" -> JObject(<< <<"error", JBool(FALSE)>> >>)
      [] text = "{\"error\":null}" -> JObject(<< <<"error", JNull>> >>)
      [] text = "{\"error\":\"\",\"message\":\"M\"}" ->
             JObject(<< <<"error", JString("")>>, <<"message", JString("M")>> >>)
      [] text = "{\"message\":\"M\"}" -> JObject(<< <<"message", JString("M")>> >>)
      [] text = "[]" -> JArray
      [] text = "null" -> JNull
      [] OTHER -> JSyntaxError

\* ToBoolean
Truthy(v) ==
    CASE v.type = "string" -> v.str # ""
      [] v.type = "number" -> v.num # 0
      [] v.type = "boolean" -> v.bool
      [] v.type \in {"null", "undefined"} -> FALSE
      [] OTHER -> TRUE

\* ToString, as a template literal or new Error(v) applies it
ToText(v) ==
    CASE v.type = "string" -> v.str
      [] v.type = "number" -> ToString(v.num)
      [] v.type = "boolean" -> IF v.bool THEN "true" ELSE "false"
      [] v.type = "null" -> "null"
      [] v.type = "undefined" -> "undefined"
      [] v.type = "array" -> ""
      [] OTHER -> "[object Object]"

\* obj.hasOwnProperty(name), for a value that is not null
HasOwnProperty(v, name) ==
    /\ v.type = "object"
    /\ \E i \in 1..Len(v.fields) : v.fields[i][1] = name

\* obj[name], for a value that is not null
GetProperty(v, name) ==
    IF HasOwnProperty(v, name)
    THEN LET i == CHOOSE j \in 1..Len(v.fields) : v.fields[j][1] = name
         IN  v.fields[i][2]
    ELSE JUndefined

\* a || b
OrElse(a, b) == IF Truthy(a) THEN a ELSE b

\* the message of the TypeError a property access on null throws
NullAccessText == "Cannot read property 'error' of null"

----------------------------------------------------------------------------
(* Response normalisation. A result is a returned value or a thrown Error. An  *)
(* Error's message is the sequence of the pieces its template literal joins   *)
(* (one piece when the message is a single text).                             *)

Returned(v) == [ok |-> TRUE, value |-> v, message |-> <<>>]

Thrown(msg) == [ok |-> FALSE, value |-> JUndefined, message |-> msg]

Response(status, data) == [statusCode |-> status, data |-> data]

\* `HTTP ${response.statusCode} Returned error: ${text}`
HttpErrorMessage(status, text) ==
    <<"HTTP ", ToString(status), " Returned error: ", text>>

\* Poloniex._resParse without its test of resObj.error
PoloniexResParseNoErrorTest(response) ==
    LET resObj == JsonParse(response.data)
    IN  IF resObj = JSyntaxError
        THEN Thrown(HttpErrorMessage(response.statusCode, response.data))
        ELSE Returned(resObj)

\* Poloniex._resParse
PoloniexResParse(response) ==
    LET resObj == JsonParse(response.data)
    IN  IF resObj = JSyntaxError
        THEN Thrown(HttpErrorMessage(response.statusCode, response.data))
        ELSE IF resObj = JNull
             THEN Thrown(<<NullAccessText>>)
             ELSE IF Truthy(GetProperty(resObj, "error"))
                  THEN Thrown(HttpErrorMessage(response.statusCode,
                                               ToText(GetProperty(resObj, "error"))))
                  ELSE Returned(resObj)

\* API._resErrorMessage
ApiResErrorMessage(response) ==
    LET parsed == JsonParse(response.data)
        data   == IF parsed = JSyntaxError
                  THEN JObject(<< <<"error", JString(response.data)>> >>)
                  ELSE parsed
    IN  IF data = JNull
        THEN Thrown(<<NullAccessText>>)
        ELSE IF response.statusCode > MaxOkStatus \/ HasOwnProperty(data, "error")
             THEN Thrown(<<ToText(OrElse(OrElse(GetProperty(data, "error"),
                                                GetProperty(data, "message")),
                                         JString(response.data)))>>)
             ELSE Returned(data)

\* API._resJsonParse
ApiResJsonParse(name, response) ==
    LET r == ApiResErrorMessage(response)
    IN  IF r.ok THEN r
        ELSE Thrown(<<"(", name, ") ">>
                    \o HttpErrorMessage(response.statusCode, r.message[1]))

----------------------------------------------------------------------------
(* Calls *)

NoNonce == 0 - 1

NoResponse == Response(0, "")

\* the command every call of the model sends
Command == "returnBalances"

\* the query object a caller of a primitive passes
DefaultQuery == << <<"command", Command>> >>

\* the record of a call that has just entered its async function
NewCall(method, ts) ==
    [method |-> method, ts |-> ts, pc |-> "start", checked |-> FALSE,
     admitted |-> FALSE, nonce |-> NoNonce, body |-> <<>>, sign |-> <<>>,
     requests |-> 0, response |-> NoResponse, result |-> Returned(JUndefined),
     query |-> DefaultQuery, keyHeader |-> Undefined]

Settled(c) == c.pc \in {"resolved", "rejected"}

\* a throw inside the async function: the call's promise is rejected
Reject(c, msg) == [c EXCEPT !.pc = "rejected", !.result = Thrown(msg)]

\* the call's promise settles with the result of the response parser
Settle(c, r) == [c EXCEPT !.pc = IF r.ok THEN "resolved" ELSE "rejected", !.result = r]

\* new Error('Key and secret are not available for POST requests.')
CredentialsMessage == <<"Key and secret are not available for POST requests.">>

\* `restricting requests to <Exchange> to maximum of ${limit} per second`
RateLimitMessage(name, limit) ==
    <<"restricting requests to ", name, " to maximum of ", RateText(limit), " per second">>

\* the message of the error event of the request
TransportMessage == <<"request error">>

\* the credential check with && for ||
CredentialsMissingBoth == key = Undefined /\ secret = Undefined

\* this.key === undefined || this.secret === undefined
CredentialsMissing == key = Undefined \/ secret = Undefined

\* the condition of the rate-limit throw, never taken
RateLimitedNever(c) == FALSE

\* the condition of `if (!await this._checkRateLimit(..))`, once resumed
RateLimited(c) == ~c.admitted

\* the nonce without the - 1 that discounts the call's own entry
NonceCountsOwnEntry(ts, rates) == ts * NonceScale + CountEqual(rates, ts)

\* (ts * 100 - 1) + this._tradingRateCount.filter(d => ts === d).length
Nonce(ts, rates) == (ts * NonceScale - 1) + CountEqual(rates, ts)

\* obj.hasOwnProperty(k), for an object kept as its <<key, value>> pairs in
\* insertion order
HasKey(obj, k) == \E i \in 1..Len(obj) : obj[i][1] = k

\* obj[k] = v: an own key keeps its place and takes the value, a new key goes last
SetKey(obj, k, v) ==
    IF HasKey(obj, k)
    THEN [i \in 1..Len(obj) |-> IF obj[i][1] = k THEN <<k, v>> ELSE obj[i]]
    ELSE Append(obj, <<k, v>>)

\* Object.assign(target, source): the own keys of source, in order, set on target
RECURSIVE ObjectAssign(_, _)
ObjectAssign(target, source) ==
    IF source = <<>>
    THEN target
    ELSE ObjectAssign(SetKey(target, source[1][1], source[1][2]), Tail(source))

\* querystring.escape, on the strings of the model: '&' is percent-encoded, letters,
\* digits and '_' are kept
QuerystringEscape(str) == IF str = "BTC&ETH" THEN "BTC%26ETH" ELSE str

\* querystring.stringify(obj): escaped key=value pairs joined by '&'
RECURSIVE QuerystringStringify(_)
QuerystringStringify(obj) ==
    IF obj = <<>>
    THEN ""
    ELSE LET pair == QuerystringEscape(obj[1][1]) \o "=" \o QuerystringEscape(obj[1][2])
         IN  IF Len(obj) = 1
             THEN pair
             ELSE pair \o "&" \o QuerystringStringify(Tail(obj))

\* the body without the nonce
PoloniexBodyQueryOnly(nonce, query) == QuerystringStringify(query)

\* querystring.stringify(Object.assign({ nonce: nonce }, query)); the number is
\* written in decimal
PoloniexBody(nonce, query) ==
    QuerystringStringify(ObjectAssign(<< <<"nonce", ToString(nonce)>> >>, query))

\* JSON.stringify({ request: this.endpointPath + path, nonce: nonce.toString() })
BitfinexBody(nonce, path) == << <<"request", "/v1/" \o path>>, <<"nonce", ToString(nonce)>> >>

\* this.secret || ''
SecretOrEmpty == IF secret \in {Undefined, ""} THEN "" ELSE secret

\* crypto.createHmac(alg, secret).update(message).digest('hex'): a keyed hash, kept
\* symbolic (equal exactly when algorithm, key and message are equal)
Hmac(alg, k, message) == <<alg, k, message>>

\* Buffer.from(body).toString('base64'), kept symbolic
Base64(body) == <<"base64", body>>

\* the synchronous part of a call up to `await this._checkRateLimit(ts, limit, rates)`:
\* the check has run and its boolean waits in the microtask queue
Checked(c, admitted) == [c EXCEPT !.pc = "awaitRate", !.checked = TRUE, !.admitted = admitted]

\* this._httpsRequest(options, body): the request is written and ended, the call
\* suspends until 'end' or 'error'
HttpsRequest(c) == [c EXCEPT !.pc = "awaitHttp", !.requests = @ + 1]

----------------------------------------------------------------------------
(* Construction *)

\* ToBoolean of an optional string
Given(x) == x # Undefined /\ x # ""

\* the arguments object of a constructor call
Arguments(keyArg, secretArg) == [key |-> keyArg, secret |-> secretArg]

\* new Poloniex(key, secret, tradingRate): a record of the instance's fields, with
\* the arguments of the call
PoloniexConstructor(keyArg, secretArg, rateArg) ==
    [key |-> keyArg, secret |-> secretArg,
     tradingRate |-> IF rateArg.n # 0 THEN rateArg ELSE Rate(PoloniexDefaultRate, 1),
     args |-> Arguments(keyArg, secretArg)]

\* new Bitfinex(..) with `process.env.X || key` for the credentials
BitfinexConstructorEnvFirst(keyArg, secretArg, rateArg, e) ==
    [key |-> IF Given(e.key) THEN e.key ELSE keyArg,
     secret |-> IF Given(e.secret) THEN e.secret ELSE secretArg,
     tradingRate |-> IF rateArg.n # 0 THEN rateArg
                     ELSE Rate(BitfinexDefaultRateNum, BitfinexDefaultRateDen),
     args |-> Arguments(keyArg, secretArg)]

\* new Bitfinex(..) with 2 for the default tradingRate
BitfinexConstructorDefaultTwo(keyArg, secretArg, rateArg, e) ==
    [key |-> IF Given(keyArg) THEN keyArg ELSE e.key,
     secret |-> IF Given(secretArg) THEN secretArg ELSE e.secret,
     tradingRate |-> IF rateArg.n # 0 THEN rateArg ELSE Rate(2, 1),
     args |-> Arguments(keyArg, secretArg)]

\* new Bitfinex(key, secret, tradingRate), with process.env as it is at that moment
BitfinexConstructor(keyArg, secretArg, rateArg, e) ==
    [key |-> IF Given(keyArg) THEN keyArg ELSE e.key,
     secret |-> IF Given(secretArg) THEN secretArg ELSE e.secret,
     tradingRate |-> IF rateArg.n # 0 THEN rateArg
                     ELSE Rate(BitfinexDefaultRateNum, BitfinexDefaultRateDen),
     args |-> Arguments(keyArg, secretArg)]

\* new Bittrex(key, secret), with process.env as it is at that moment; the class has
\* no tradingRate (the zero rate stands for the missing field)
BittrexConstructor(keyArg, secretArg, e) ==
    [key |-> IF Given(keyArg) THEN keyArg ELSE e.key,
     secret |-> IF Given(secretArg) THEN secretArg ELSE e.secret,
     tradingRate |-> Rate(0, 1),
     args |-> Arguments(keyArg, secretArg)]

\* no limiter is run outside a client
NoBench == [limit |-> Rate(0, 1), poloniex |-> <<>>, api |-> <<>>, log |-> <<>>]

\* the state right after `new <Exchange>(..)` ran with process.env = e, the clock at t
ConstructedIn(e, ex, fields, t) ==
    /\ bench = NoBench
    /\ env = e
    /\ construction = [args |-> fields.args, env |-> e]
    /\ exchange = ex
    /\ key = fields.key
    /\ secret = fields.secret
    /\ tradingRate = fields.tradingRate
    /\ publicRateCount = <<>>
    /\ tradingRateCount = <<>>
    /\ now = t
    /\ calls = <<>>
    /\ microtasks = <<>>

\* process.env without, and with, the credentials of the exchange
EnvUnset == [key |-> Undefined, secret |-> Undefined]

EnvSet == [key |-> "env key", secret |-> "env secret"]

\* the state right after `new <Exchange>(..)` in a process without the variables
Constructed(ex, fields, t) == ConstructedIn(EnvUnset, ex, fields, t)

----------------------------------------------------------------------------
(* Operations *)

\* this.name of the Bitfinex v1 client
BitfinexName == "bitfinex v1"

\* Poloniex._get up to its first await: the timestamp is read, the check pushes it
\* to the public window, and the continuation is queued as a microtask
PoloniexGetQuery(query) ==
    /\ exchange = "poloniex"
    /\ LET ts == now
           r  == PoloniexCheckRateLimit(ts, Rate(PublicRate, 1), publicRateCount)
       IN  /\ publicRateCount' = r.rates
           /\ calls' = Append(calls, [Checked(NewCall("get", ts), r.admitted)
                                          EXCEPT !.query = query])
           /\ microtasks' = Append(microtasks, Len(calls) + 1)
    /\ UNCHANGED <<bench, env, construction, exchange, key, secret, tradingRate, tradingRateCount, now>>

\* plx._get(query) with the query of the model
PoloniexGet == PoloniexGetQuery(DefaultQuery)

\* the periods Poloniex.returnChartData accepts
ChartPeriods == {300, 900, 1800, 7200, 14400, 86400}

\* the period test of returnChartData, accepting everything
ValidPeriodAlways(period) == TRUE

\* [300, 900, 1800, 7200, 14400, 86400].includes(period)
ValidPeriod(period) == period \in ChartPeriods

\* new Error('period must be one of 300, 900, 1800, 7200, 14400 or 86400')
PeriodMessage == <<"period must be one of 300, 900, 1800, 7200, 14400 or 86400">>

\* Math.floor(date / 1000).toString(), for a date in ms
SecondsText(date) == ToString(date \div 1000)

\* the query returnChartData passes to _get
ChartQuery(currencyPair, period, startDate, endDate) ==
    << <<"command", "returnChartData">>, <<"currencyPair", currencyPair>>,
       <<"start", SecondsText(startDate)>>, <<"end", SecondsText(endDate)>>,
       <<"period", ToString(period)>> >>

\* Poloniex.returnChartData: throw on a period outside the list (the promise of the
\* async method is rejected, nothing else has run), else return this._get(query)
ReturnChartData(currencyPair, period, startDate, endDate) ==
    LET query == ChartQuery(currencyPair, period, startDate, endDate)
    IN  IF ValidPeriod(period)
        THEN PoloniexGetQuery(query)
        ELSE /\ exchange = "poloniex"
             /\ calls' = Append(calls, [Reject(NewCall("returnChartData", 0), PeriodMessage)
                                            EXCEPT !.query = query])
             /\ UNCHANGED <<bench, env, construction, exchange, key, secret, tradingRate, publicRateCount,
                            tradingRateCount, now, microtasks>>

\* Poloniex._post checking against, and pushing to, the window of the public class
PoloniexPostSharedWindow ==
    /\ exchange = "poloniex"
    /\ LET ts == now
           r  == PoloniexCheckRateLimit(ts, tradingRate, publicRateCount)
       IN  IF CredentialsMissing
           THEN /\ calls' = Append(calls, Reject(NewCall("post", ts), CredentialsMessage))
                /\ UNCHANGED <<publicRateCount, microtasks>>
           ELSE /\ publicRateCount' = r.rates
                /\ calls' = Append(calls, Checked(NewCall("post", ts), r.admitted))
                /\ microtasks' = Append(microtasks, Len(calls) + 1)
    /\ UNCHANGED <<bench, env, construction, exchange, key, secret, tradingRate,
                   tradingRateCount, now>>

\* Poloniex._post(query) up to its first await, or to the throw of the credential
\* check
PoloniexPostQuery(query) ==
    /\ exchange = "poloniex"
    /\ LET ts == now
           r  == PoloniexCheckRateLimit(ts, tradingRate, tradingRateCount)
           c  == [NewCall("post", ts) EXCEPT !.query = query]
       IN  IF CredentialsMissing
           THEN /\ calls' = Append(calls, Reject(c, CredentialsMessage))
                /\ UNCHANGED <<tradingRateCount, microtasks>>
           ELSE /\ tradingRateCount' = r.rates
                /\ calls' = Append(calls, Checked(c, r.admitted))
                /\ microtasks' = Append(microtasks, Len(calls) + 1)
    /\ UNCHANGED <<bench, env, construction, exchange, key, secret, tradingRate, publicRateCount, now>>

\* plx._post(query) with the query of the model
PoloniexPost == PoloniexPostQuery(DefaultQuery)

\* Bitfinex._get: no rate-limit check; runs to `await this._httpsRequest(options)`
BitfinexGet ==
    /\ exchange = "bitfinex"
    /\ calls' = Append(calls, HttpsRequest(NewCall("get", now)))
    /\ UNCHANGED <<bench, env, construction, exchange, key, secret, tradingRate, publicRateCount,
                   tradingRateCount, now, microtasks>>

\* Bitfinex._post up to its first await, or to the throw of the credential check
BitfinexPost ==
    /\ exchange = "bitfinex"
    /\ LET ts == now
           r  == ApiCheckRateLimit(ts, tradingRate, tradingRateCount)
       IN  IF CredentialsMissing
           THEN /\ calls' = Append(calls, Reject(NewCall("post", ts), CredentialsMessage))
                /\ UNCHANGED <<tradingRateCount, microtasks>>
           ELSE /\ tradingRateCount' = r.rates
                /\ calls' = Append(calls, Checked(NewCall("post", ts), r.admitted))
                /\ microtasks' = Append(microtasks, Len(calls) + 1)
    /\ UNCHANGED <<bench, env, construction, exchange, key, secret, tradingRate, publicRateCount, now>>

\* the continuation of Poloniex._get after `await this._checkRateLimit(..)`:
\* throw when the check returned false, else send the request
PoloniexGetResume ==
    /\ exchange = "poloniex"
    /\ microtasks # <<>>
    /\ LET i == Head(microtasks)
           c == calls[i]
       IN  /\ c.method = "get"
           /\ calls' = [calls EXCEPT ![i] =
                  IF RateLimited(c)
                  THEN Reject(c, RateLimitMessage("Poloniex", Rate(PublicRate, 1)))
                  ELSE HttpsRequest(c)]
    /\ microtasks' = Tail(microtasks)
    /\ UNCHANGED <<bench, env, construction, exchange, key, secret, tradingRate, publicRateCount,
                   tradingRateCount, now>>

\* the continuation of Poloniex._post after `await this._checkRateLimit(..)`: throw
\* when the check returned false, else compute the nonce from the window as it is
\* now, sign the body and send the request
PoloniexPostResume ==
    /\ exchange = "poloniex"
    /\ microtasks # <<>>
    /\ LET i     == Head(microtasks)
           c     == calls[i]
           nonce == Nonce(c.ts, tradingRateCount)
           body  == PoloniexBody(nonce, c.query)
       IN  /\ c.method = "post"
           /\ calls' = [calls EXCEPT ![i] =
                  IF RateLimited(c)
                  THEN Reject(c, RateLimitMessage("Poloniex", tradingRate))
                  ELSE HttpsRequest([c EXCEPT !.nonce = nonce, !.body = body,
                                              !.keyHeader = key,
                                              !.sign = Hmac("sha512", SecretOrEmpty, body)])]
    /\ microtasks' = Tail(microtasks)
    /\ UNCHANGED <<bench, env, construction, exchange, key, secret, tradingRate, publicRateCount,
                   tradingRateCount, now>>

\* the continuation of Bitfinex._post after `await this._checkRateLimit(..)`
BitfinexPostResume ==
    /\ exchange = "bitfinex"
    /\ microtasks # <<>>
    /\ LET i     == Head(microtasks)
           c     == calls[i]
           nonce == Nonce(c.ts, tradingRateCount)
           body  == BitfinexBody(nonce, Command)
       IN  /\ c.method = "post"
           /\ calls' = [calls EXCEPT ![i] =
                  IF RateLimited(c)
                  THEN Reject(c, RateLimitMessage("Bitfinex", tradingRate))
                  ELSE HttpsRequest([c EXCEPT !.nonce = nonce, !.body = body,
                                     !.keyHeader = key,
                                     !.sign = Hmac("sha384", SecretOrEmpty, Base64(body))])]
    /\ microtasks' = Tail(microtasks)
    /\ UNCHANGED <<bench, env, construction, exchange, key, secret, tradingRate, publicRateCount,
                   tradingRateCount, now>>

\* the response parser the client applies to a complete response
ResParse(response) ==
    IF exchange = "poloniex"
    THEN PoloniexResParse(response)
    ELSE ApiResJsonParse(BitfinexName, response)

\* res.on('end') that also drops the oldest entry of the window of the call's class
ResponseEndReleasesSlot(i, response) ==
    /\ i \in 1..Len(calls)
    /\ microtasks = <<>>
    /\ calls[i].pc = "awaitHttp"
    /\ calls' = [calls EXCEPT ![i] = Settle([@ EXCEPT !.response = response],
                                            ResParse(response))]
    /\ publicRateCount' = IF calls[i].method = "get" /\ publicRateCount # <<>>
                          THEN Tail(publicRateCount) ELSE publicRateCount
    /\ tradingRateCount' = IF calls[i].method = "post" /\ tradingRateCount # <<>>
                           THEN Tail(tradingRateCount) ELSE tradingRateCount
    /\ UNCHANGED <<bench, env, construction, exchange, key, secret, tradingRate, now, microtasks>>

\* res.on('end'), an I/O callback (it runs once no microtask is left): _httpsRequest resolves with {statusCode, data} and the call's
\* continuation returns, or throws, what the response parser does
ResponseEnd(i, response) ==
    /\ i \in 1..Len(calls)
    /\ microtasks = <<>>
    /\ calls[i].pc = "awaitHttp"
    /\ calls' = [calls EXCEPT ![i] = Settle([@ EXCEPT !.response = response],
                                            ResParse(response))]
    /\ UNCHANGED <<bench, env, construction, exchange, key, secret, tradingRate, publicRateCount,
                   tradingRateCount, now, microtasks>>

\* the rejection of _httpsRequest handed to the response parser as a body
AwaitRejectedParsed(c, err) == Settle(c, ResParse(Response(0, err[1])))

\* req.on('error') with a handler that drops the error: _httpsRequest stays pending
AwaitRejectedDropped(c, err) == [c EXCEPT !.pc = "pending"]

\* `await this._httpsRequest(..)` when that promise rejects with err: the await
\* throws err, no try encloses it, the promise of the call rejects with err
AwaitRejected(c, err) == Reject(c, err)

\* req.on('error', reject), an I/O callback: the call rejects with the error of the transport
RequestError(i) ==
    /\ i \in 1..Len(calls)
    /\ microtasks = <<>>
    /\ calls[i].pc = "awaitHttp"
    /\ calls' = [calls EXCEPT ![i] = AwaitRejected(@, TransportMessage)]
    /\ UNCHANGED <<bench, env, construction, exchange, key, secret, tradingRate, publicRateCount,
                   tradingRateCount, now, microtasks>>

\* process.env.CRYPTO_<EXCHANGE>_KEY / _SECRET are assigned or deleted by the program
\* around the client
SetEnv(e) ==
    /\ env # e
    /\ env' = e
    /\ UNCHANGED <<bench, construction, exchange, key, secret, tradingRate, publicRateCount,
                   tradingRateCount, now, calls, microtasks>>

\* new API(): the base class holds no credentials and no rate
ApiConstructor ==
    [key |-> Undefined, secret |-> Undefined, tradingRate |-> Rate(0, 1),
     args |-> Arguments(Undefined, Undefined)]

\* `let rates = []` for each limiter, and the limit the calls will pass
NewBench(limit) == [limit |-> limit, poloniex |-> <<>>, api |-> <<>>, log |-> <<>>]

\* plx._checkRateLimit(ts, limit, rates) and api._checkRateLimit(ts, limit, rates),
\* each on its own array; the log keeps what was passed and what came back
BenchCheck(ts) ==
    LET p == PoloniexCheckRateLimit(ts, bench.limit, bench.poloniex)
        a == ApiCheckRateLimit(ts, bench.limit, bench.api)
    IN  /\ bench' = [bench EXCEPT
                        !.poloniex = p.rates,
                        !.api = a.rates,
                        !.log = Append(@, [ts |-> ts,
                                           poloniexBefore |-> bench.poloniex,
                                           poloniexAfter |-> p.rates,
                                           poloniex |-> p.admitted,
                                           apiBefore |-> bench.api,
                                           apiAfter |-> a.rates,
                                           api |-> a.admitted])]
        /\ UNCHANGED <<env, construction, exchange, key, secret, tradingRate,
                       publicRateCount, tradingRateCount, now, calls, microtasks>>

\* the clock moves to t
ClockSet(t) ==
    /\ now' = t
    /\ UNCHANGED <<bench, env, construction, exchange, key, secret, tradingRate, publicRateCount,
                   tradingRateCount, calls, microtasks>>

----------------------------------------------------------------------------
(* Spec: one client, calls issued at any moment, also while earlier calls are   *)
(* suspended; the clock may step forwards and backwards.                       *)

KeyArgs == {Undefined, "key"}

SecretArgs == {Undefined, "secret"}

\* the tradingRate argument; 0 stands for an argument not passed
RateArgs == {Rate(0, 1), Rate(1, 1), Rate(2, 1)}

ClockGrid == {T0, T0 + 1}

Responses == {Response(200, "{}"), Response(404, "Not found")}

Init ==
    \E keyArg \in KeyArgs, secretArg \in SecretArgs, rateArg \in RateArgs :
        \/ Constructed("poloniex", PoloniexConstructor(keyArg, secretArg, rateArg), T0)
        \/ Constructed("bitfinex",
                       BitfinexConstructor(keyArg, secretArg, rateArg, EnvUnset), T0)

\* the caller invokes one of the primitives of its client
Issue == PoloniexGet \/ PoloniexPost \/ BitfinexGet \/ BitfinexPost

\* the microtask at the head of the queue runs
Resume == PoloniexGetResume \/ PoloniexPostResume \/ BitfinexPostResume

Respond == \E i \in 1..Len(calls), r \in Responses : ResponseEnd(i, r)

Fail == \E i \in 1..Len(calls) : RequestError(i)

Tick == \E t \in ClockGrid : t > now /\ ClockSet(t)

StepBack == \E t \in ClockGrid : t < now /\ ClockSet(t)

Next ==
    \/ Len(calls) < MaxCalls /\ Issue
    \/ Resume
    \/ Respond
    \/ Fail
    \/ Tick
    \/ StepBack

Spec == Init /\ [][Next]_vars

----------------------------------------------------------------------------
(* SpecSeq: a caller that awaits every call before it issues the next one and   *)
(* moves the clock between calls, as the tests of the rate limits do, on one    *)
(* rate class per run; every request is answered 200 {}.                        *)

AllSettled == \A i \in 1..Len(calls) : Settled(calls[i])

OnlyMethod(m) == \A i \in 1..Len(calls) : calls[i].method = m

SeqRateArgs == {Rate(1, 1), Rate(2, 1), Rate(3, 1)}

SeqClockGrid == {T0 + o : o \in {0, 167, 334, 501, 668, 835, 1000, 1002}}

SeqInit ==
    \E rateArg \in SeqRateArgs :
        \/ Constructed("poloniex", PoloniexConstructor("key", "secret", rateArg), T0)
        \/ Constructed("bitfinex",
                       BitfinexConstructor("key", "secret", rateArg, EnvUnset), T0)

SeqGet ==
    /\ AllSettled
    /\ OnlyMethod("get")
    /\ Len(calls) < PublicRate + ExtraCalls
    /\ PoloniexGet

SeqPost ==
    /\ AllSettled
    /\ OnlyMethod("post")
    /\ Len(calls) * tradingRate.d < tradingRate.n + ExtraCalls * tradingRate.d
    /\ (PoloniexPost \/ BitfinexPost)

SeqRespond == \E i \in 1..Len(calls) : ResponseEnd(i, Response(200, "{}"))

SeqTick == \E t \in SeqClockGrid : t > now /\ AllSettled /\ ClockSet(t)

SeqNext == SeqGet \/ SeqPost \/ Resume \/ SeqRespond \/ SeqTick

SpecSeq == SeqInit /\ [][SeqNext]_vars

----------------------------------------------------------------------------
(* SpecNonce: the same caller, issuing private calls only, on a client built    *)
(* with a large tradingRate.                                                    *)

NonceInit ==
    \/ Constructed("poloniex", PoloniexConstructor("key", "secret", Rate(HighRate, 1)), T0)
    \/ Constructed("bitfinex",
                   BitfinexConstructor("key", "secret", Rate(HighRate, 1), EnvUnset), T0)

NonceTick == \E t \in ClockGrid : t > now /\ AllSettled /\ ClockSet(t)

NonceNext == SeqPost \/ PoloniexPostResume \/ BitfinexPostResume \/ SeqRespond \/ NonceTick

SpecNonce == NonceInit /\ [][NonceNext]_vars

----------------------------------------------------------------------------
(* SpecScale: the same caller on a client built with the largest tradingRate    *)
(* the factor of the nonce leaves room for.                                     *)

ScaleInit ==
    \/ Constructed("poloniex", PoloniexConstructor("key", "secret", Rate(NonceScale, 1)), T0)
    \/ Constructed("bitfinex",
                   BitfinexConstructor("key", "secret", Rate(NonceScale, 1), EnvUnset), T0)

ScaleNext == SeqPost \/ PoloniexPostResume \/ BitfinexPostResume \/ SeqRespond \/ NonceTick

SpecScale == ScaleInit /\ [][ScaleNext]_vars

----------------------------------------------------------------------------
(* SpecParse: one public call, answered by any response of ParseResponses.      *)

ParseStatuses == {200, 204, 299, 300, 404, 500}

ParseBodies ==
    {"{}", "{\"foo\":\"bar\"}", "{\"error\":\"X\"}", "{\"error\":\"Not found\"}",
     "{\"error\":\"\"}", "{\"error\":0}", "{\"error\":false}", "{\"error\":null}",
     "{\"error\":\"\",\"message\":\"M\"}", "{\"message\":\"M\"}", "[]", "null",
     "Not found", ""}

ParseResponses == {Response(st, b) : st \in ParseStatuses, b \in ParseBodies}

ParseInit ==
    \/ Constructed("poloniex", PoloniexConstructor(Undefined, Undefined, Rate(0, 1)), T0)
    \/ Constructed("bitfinex",
                   BitfinexConstructor(Undefined, Undefined, Rate(0, 1), EnvUnset), T0)

ParseGet == calls = <<>> /\ (PoloniexGet \/ BitfinexGet)

ParseRespond == \E r \in ParseResponses : ResponseEnd(1, r)

ParseNext == ParseGet \/ PoloniexGetResume \/ ParseRespond

SpecParse == ParseInit /\ [][ParseNext]_vars

----------------------------------------------------------------------------
(* SpecChart: a Poloniex client without credentials whose caller asks for chart  *)
(* data, with periods inside and outside the accepted list.                     *)

ChartPeriodArgs == ChartPeriods \cup {0, 301, 666}

\* startDate and endDate of the requests, in ms
ChartStart == T0 - RateWindowMs

ChartEnd == T0

ChartInit ==
    Constructed("poloniex", PoloniexConstructor(Undefined, Undefined, Rate(0, 1)), T0)

ChartIssue ==
    /\ Len(calls) < MaxCalls
    /\ \E period \in ChartPeriodArgs :
           ReturnChartData("BTC_NXT", period, ChartStart, ChartEnd)

ChartRespond == \E i \in 1..Len(calls) : ResponseEnd(i, Response(200, "[]"))

ChartNext == ChartIssue \/ PoloniexGetResume \/ ChartRespond \/ Fail \/ Tick

SpecChart == ChartInit /\ [][ChartNext]_vars

----------------------------------------------------------------------------
(* SpecEnv: a client of any class that holds credentials, constructed with or    *)
(* without arguments in a process with or without the variables; afterwards     *)
(* the environment changes and calls are made.                                   *)

EnvKeyArgs == {Undefined, "", "key"}

EnvSecretArgs == {Undefined, "", "secret"}

EnvOther == [key |-> "other key", secret |-> "other secret"]

Envs == {EnvUnset, EnvSet, EnvOther}

EnvInit ==
    \E e \in Envs, keyArg \in EnvKeyArgs, secretArg \in EnvSecretArgs :
        \/ ConstructedIn(e, "poloniex",
                         PoloniexConstructor(keyArg, secretArg, Rate(0, 1)), T0)
        \/ ConstructedIn(e, "bitfinex",
                         BitfinexConstructor(keyArg, secretArg, Rate(0, 1), e), T0)
        \/ ConstructedIn(e, "bittrex", BittrexConstructor(keyArg, secretArg, e), T0)

EnvChange == \E e \in Envs : SetEnv(e)

EnvNext ==
    \/ Len(calls) < EnvCalls /\ Issue
    \/ Resume
    \/ SeqRespond
    \/ Fail
    \/ EnvChange

SpecEnv == EnvInit /\ [][EnvNext]_vars

----------------------------------------------------------------------------
(* SpecMixed: a Poloniex client whose caller awaits each call and mixes public   *)
(* and private calls within one second and across its end.                      *)

MixedRateArgs == {Rate(1, 1), Rate(2, 1)}

MixedClockGrid == {T0, T0 + 999, T0 + 1000}

\* the number of calls made through the primitive m
CountMethod(m) == Len(SelectSeq(calls, LAMBDA c : c.method = m))

MixedInit ==
    \E rateArg \in MixedRateArgs :
        Constructed("poloniex", PoloniexConstructor("key", "secret", rateArg), T0)

MixedGet ==
    /\ AllSettled
    /\ CountMethod("get") < PublicRate + MixedExtra
    /\ PoloniexGet

MixedPost ==
    /\ AllSettled
    /\ CountMethod("post") < tradingRate.n + MixedExtra
    /\ PoloniexPost

MixedTick == \E t \in MixedClockGrid : t > now /\ AllSettled /\ ClockSet(t)

MixedNext ==
    \/ MixedGet
    \/ MixedPost
    \/ PoloniexGetResume
    \/ PoloniexPostResume
    \/ SeqRespond
    \/ MixedTick

SpecMixed == MixedInit /\ [][MixedNext]_vars

----------------------------------------------------------------------------
(* SpecLimiter: the two _checkRateLimit methods called directly, side by side   *)
(* on arrays that start empty, with the same limit and the same timestamps,    *)
(* which never decrease.                                                       *)

BenchLimits ==
    {Rate(1, 1), Rate(2, 1), Rate(3, 1),
     Rate(BitfinexDefaultRateNum, BitfinexDefaultRateDen)}

BenchClock ==
    {T0 + o : o \in {0, 1, 167, 334, 500, 501, 668, 999, 1000, 1001, 1002,
                     1500, 1998, 2000, 2997}}

\* the arrays are those of a test, no call of a client is made
BenchInit ==
    /\ \E limit \in BenchLimits : bench = NewBench(limit)
    /\ env = EnvUnset
    /\ construction = [args |-> ApiConstructor.args, env |-> EnvUnset]
    /\ exchange = "api"
    /\ key = ApiConstructor.key
    /\ secret = ApiConstructor.secret
    /\ tradingRate = ApiConstructor.tradingRate
    /\ publicRateCount = <<>>
    /\ tradingRateCount = <<>>
    /\ now = T0
    /\ calls = <<>>
    /\ microtasks = <<>>

\* the timestamp of the latest check
BenchLast == IF bench.log = <<>> THEN T0 ELSE bench.log[Len(bench.log)].ts

LimiterCheck ==
    /\ Len(bench.log) < BenchCalls
    /\ \E ts \in BenchClock : ts >= BenchLast /\ BenchCheck(ts)

LimiterNext == LimiterCheck

SpecLimiter == BenchInit /\ [][LimiterNext]_vars

----------------------------------------------------------------------------
(* SpecLimiterAny: the same, with timestamps in any order, zero and a negative  *)
(* one included.                                                               *)

AnyClock == {0 - 1500, 0, 999, 1000, 2000, 2001}

AnyCheck ==
    /\ Len(bench.log) < BenchCalls
    /\ \E ts \in AnyClock : BenchCheck(ts)

AnyNext == AnyCheck

SpecLimiterAny == BenchInit /\ [][AnyNext]_vars

----------------------------------------------------------------------------
(* SpecSign: a Poloniex client with credentials; its caller awaits the private  *)
(* methods, which pass _post the queries they build.                            *)

SignKeys == {"key", "other key"}

SignSecrets == {"secret", "other secret", ""}

\* the queries of returnBalances(), generateNewAddress('BTC') and
\* returnOpenOrders('BTC&ETH')
PostQueries ==
    {DefaultQuery,
     << <<"command", "generateNewAddress">>, <<"currency", "BTC">> >>,
     << <<"command", "returnOpenOrders">>, <<"currencyPair", "BTC&ETH">> >>}

SignClock == {T0, T0 + 1, T0 + 1000}

SignInit ==
    \E keyArg \in SignKeys, secretArg \in SignSecrets :
        Constructed("poloniex", PoloniexConstructor(keyArg, secretArg, Rate(2, 1)), T0)

SignPost ==
    /\ AllSettled
    /\ Len(calls) < SignCalls
    /\ \E query \in PostQueries : PoloniexPostQuery(query)

SignTick == \E t \in SignClock : t > now /\ AllSettled /\ ClockSet(t)

SignNext == SignPost \/ PoloniexPostResume \/ SeqRespond \/ SignTick

SpecSign == SignInit /\ [][SignNext]_vars

----------------------------------------------------------------------------
(* SpecDefault: a Bitfinex client constructed without a tradingRate (or with    *)
(* 0); calls are issued at any moment while the clock advances.                 *)

DefaultClock == {T0 + o : o \in {0, 1, 999, 1000, 1998, 1999}}

DefaultInit ==
    \E keyArg \in KeyArgs :
        Constructed("bitfinex", BitfinexConstructor(keyArg, "secret", Rate(0, 1), EnvUnset), T0)

DefaultIssue == Len(calls) < DefaultCalls /\ (BitfinexPost \/ BitfinexGet)

DefaultTick == \E t \in DefaultClock : t > now /\ ClockSet(t)

DefaultNext == DefaultIssue \/ BitfinexPostResume \/ SeqRespond \/ DefaultTick

SpecDefault == DefaultInit /\ [][DefaultNext]_vars

----------------------------------------------------------------------------
(* SpecLive: one client, calls issued at any moment. The event loop runs every  *)
(* queued microtask, and the network ends every request it was handed, with a   *)
(* complete response or with an error.                                          *)

LiveInit ==
    \E keyArg \in KeyArgs :
        \/ Constructed("poloniex", PoloniexConstructor(keyArg, "secret", Rate(1, 1)), T0)
        \/ Constructed("bitfinex",
                       BitfinexConstructor(keyArg, "secret", Rate(1, 1), EnvUnset), T0)

LiveChart ==
    \E period \in {300, 666} : ReturnChartData("BTC_NXT", period, ChartStart, ChartEnd)

LiveIssue == Len(calls) < LiveCalls /\ (Issue \/ LiveChart)

\* the request of call i ends: res.on('end') or req.on('error')
Delivery(i) == (\E r \in Responses : ResponseEnd(i, r)) \/ RequestError(i)

LiveNext == LiveIssue \/ Resume \/ Respond \/ Fail \/ Tick

LiveFairness ==
    /\ WF_vars(Resume)
    /\ \A i \in 1..LiveCalls : WF_vars(Delivery(i))

SpecLive == LiveInit /\ [][LiveNext]_vars /\ LiveFairness

----------------------------------------------------------------------------
(* Properties *)

\* the attempts of one rate class, in the order their checks ran
ClassLog(m) == SelectSeq(calls, LAMBDA c : c.method = m /\ c.checked)

\* the limit the class is checked against
ClassLimit(m) == IF m = "get" THEN Rate(PublicRate, 1) ELSE tradingRate

ClientName == IF exchange = "poloniex" THEN "Poloniex" ELSE "Bitfinex"

NonDecreasing(q) == \A i \in 1..Len(q) - 1 : q[i].ts <= q[i + 1].ts

\* the call has resumed from the await of its check and was thrown out with the
\* rate-limit error of its class
RejectedByRateLimit(c) ==
    /\ c.pc = "rejected"
    /\ c.result = Thrown(RateLimitMessage(ClientName, ClassLimit(c.method)))

\* text is one of the pieces of the message
Contains(msg, text) == \E k \in 1..Len(msg) : msg[k] = text

\* the calls that were answered by a complete response
Answered == {i \in 1..Len(calls) : Settled(calls[i]) /\ calls[i].response # NoResponse}

\* C1: a burst of L+1 attempts of one class that starts on a window holding no
\* unexpired entry and spans less than 1000 ms: attempts 1..L are admitted, attempt
\* L+1 is not, and once resumed it is rejected with the rate-limit error.
C1_BurstRejection ==
    \A m \in {"get", "post"} :
        LET q == ClassLog(m)
            L == ClassLimit(m)
        IN  (L.d = 1 /\ L.n >= 1 /\ NonDecreasing(q)) =>
            \A s \in 1..Len(q) :
                (\A j \in 1..(s - 1) : q[j].ts <= q[s].ts - 1000) =>
                \A k \in 0..L.n :
                    (s + k <= Len(q) /\ q[s + k].ts - q[s].ts < 1000) =>
                    IF k < L.n
                    THEN q[s + k].admitted /\ ~RejectedByRateLimit(q[s + k])
                    ELSE /\ ~q[s + k].admitted
                         /\ q[s + k].pc # "awaitRate" => RejectedByRateLimit(q[s + k])

\* the burst of the public class has reached its attempt L+1
C1_Witness ==
    LET q == ClassLog("get")
    IN  /\ Len(q) = PublicRate + 1
        /\ q[Len(q)].ts - q[1].ts < 1000
        /\ \A i \in 1..PublicRate : q[i].pc = "resolved"
        /\ RejectedByRateLimit(q[Len(q)])

\* C2: attempts of one class whose consecutive timestamps are at least 1000/L ms
\* apart are all admitted, however many they are.
C2_SteadyAdmission ==
    \A m \in {"get", "post"} :
        LET q == ClassLog(m)
            L == ClassLimit(m)
        IN  (/\ L.d = 1
             /\ L.n >= 1
             /\ \A i \in 1..Len(q) - 1 : (q[i + 1].ts - q[i].ts) * L.n >= 1000) =>
            \A i \in 1..Len(q) : q[i].admitted /\ ~RejectedByRateLimit(q[i])

\* more attempts than the limit, spaced 1000/L apart or more, all settled successfully
C2_Witness ==
    LET q == ClassLog("get")
    IN  /\ Len(q) = PublicRate + 1
        /\ \A i \in 1..Len(q) - 1 : (q[i + 1].ts - q[i].ts) * PublicRate >= 1000
        /\ \A i \in 1..Len(q) : q[i].pc = "resolved"

\* C3: private calls issued one after another on a non-decreasing clock: the nonce
\* of every call that got one is strictly greater than the nonce of every earlier one.
C3_NonceMonotone ==
    \A i, j \in 1..Len(calls) :
        (i < j /\ calls[i].nonce # NoNonce /\ calls[j].nonce # NoNonce) =>
        calls[i].nonce < calls[j].nonce

\* C4: two private calls that read the same millisecond get increasing nonces and
\* distinct signatures, whatever the interleaving of their steps.
C4_SameMsDistinct ==
    \A i, j \in 1..Len(calls) :
        (/\ i < j
         /\ calls[i].ts = calls[j].ts
         /\ calls[i].nonce # NoNonce
         /\ calls[j].nonce # NoNonce) =>
        calls[i].nonce < calls[j].nonce /\ calls[i].sign # calls[j].sign

\* C5: a private call on a client without key or without secret is rejected with the
\* missing-credentials error in the step that issues it, which changes no window and
\* queues nothing; the call never sends a request.
C5_NoCredentials ==
    /\ [][(/\ key = Undefined \/ secret = Undefined
           /\ Len(calls') = Len(calls) + 1
           /\ calls'[Len(calls')].method = "post") =>
          (/\ publicRateCount' = publicRateCount
           /\ tradingRateCount' = tradingRateCount
           /\ microtasks' = microtasks
           /\ calls'[Len(calls')].pc = "rejected"
           /\ calls'[Len(calls')].result = Thrown(CredentialsMessage))]_vars
    /\ [](\A i \in 1..Len(calls) :
              (calls[i].method = "post" /\ (key = Undefined \/ secret = Undefined)) =>
              /\ calls[i].pc = "rejected"
              /\ calls[i].result = Thrown(CredentialsMessage)
              /\ ~calls[i].checked
              /\ calls[i].requests = 0)

\* a private call was issued without a secret, after a public call filled a window
C5_Witness ==
    /\ key # Undefined
    /\ secret = Undefined
    /\ \E i \in 1..Len(calls) : calls[i].method = "post" /\ calls[i].pc = "rejected"
    /\ \E i \in 1..Len(calls) : calls[i].method = "get"

\* C6: a call whose rate-limit check returned false sends no request, gets no nonce
\* and no signature, waits only for its own continuation and then is rejected with
\* the rate-limit error; it is not run again.
C6_RateLimitRejects ==
    \A i \in 1..Len(calls) :
        (calls[i].checked /\ ~calls[i].admitted) =>
        /\ calls[i].requests = 0
        /\ calls[i].nonce = NoNonce
        /\ calls[i].sign = <<>>
        /\ calls[i].response = NoResponse
        /\ \/ calls[i].pc = "awaitRate" /\ Contains(microtasks, i)
           \/ RejectedByRateLimit(calls[i]) /\ ~Contains(microtasks, i)

\* a public call was rejected by the rate limit after six were answered
C6_Witness ==
    \E i \in 1..Len(calls) :
        /\ calls[i].method = "get"
        /\ calls[i].checked
        /\ ~calls[i].admitted
        /\ calls[i].pc = "rejected"
        /\ \A j \in 1..(i - 1) : calls[j].requests = 1

\* C7: a 200 response whose JSON body has a non-empty text X in its error field is a
\* failure whose message contains X; a 200 response whose body is a JSON object with
\* no error field resolves with that object; a body that is not JSON is a failure
\* whose message contains the body text, whatever the status.
C7_ResponseNormalization ==
    \A i \in Answered :
        LET r    == calls[i].response
            json == JsonParse(r.data)
            err  == GetProperty(json, "error")
        IN  /\ (/\ r.statusCode = 200
                /\ HasOwnProperty(json, "error")
                /\ err.type = "string"
                /\ err.str # "") =>
               (/\ calls[i].pc = "rejected"
                /\ ~calls[i].result.ok
                /\ Contains(calls[i].result.message, err.str))
            /\ (/\ r.statusCode = 200
                /\ json.type = "object"
                /\ ~HasOwnProperty(json, "error")) =>
               (calls[i].pc = "resolved" /\ calls[i].result = Returned(json))
            /\ json = JSyntaxError =>
               (/\ calls[i].pc = "rejected"
                /\ ~calls[i].result.ok
                /\ Contains(calls[i].result.message, r.data))

\* the Poloniex client was answered 200 {"error":"X"}
C7_Witness ==
    /\ exchange = "poloniex"
    /\ \E i \in Answered :
           /\ calls[i].response = Response(200, "{\"error\":\"X\"}")
           /\ calls[i].pc = "rejected"

\* C8: a response whose status is outside [200, 299] is a failure that carries the
\* status, whatever the body; only a status in [200, 299] resolves.
C8_StatusOutside2xxFails ==
    \A i \in Answered :
        LET r == calls[i].response
        IN  /\ (r.statusCode < 200 \/ r.statusCode > 299) =>
               (/\ calls[i].pc = "rejected"
                /\ Contains(calls[i].result.message, ToString(r.statusCode)))
            /\ calls[i].pc = "resolved" => r.statusCode \in 200..299

\* C9: a JSON body with an error field is a failure, whatever the value of the field
\* and whatever the status.
C9_ErrorFieldFails ==
    \A i \in Answered :
        HasOwnProperty(JsonParse(calls[i].response.data), "error") =>
        calls[i].pc = "rejected" /\ ~calls[i].result.ok

\* C10: a private call that reads an earlier timestamp than a call issued before it
\* still gets a nonce strictly greater than the nonce of that call.
C10_NonceUnderClockSkew ==
    \A i, j \in 1..Len(calls) :
        (/\ i < j
         /\ calls[j].ts < calls[i].ts
         /\ calls[i].nonce # NoNonce
         /\ calls[j].nonce # NoNonce) =>
        calls[i].nonce < calls[j].nonce


\* the call was made through returnChartData
IsChartCall(c) == c.query[1] = <<"command", "returnChartData">>

\* the call was made through returnChartData with a period of the accepted list
HasListedPeriod(c) ==
    c.query[5][2] \in {"300", "900", "1800", "7200", "14400", "86400"}

\* C11: returnChartData with a period outside the list is rejected with the
\* invalid-period error in the step that issues it: no window gets an entry, nothing
\* is queued, _get does not run and no request is ever sent; with a period of the
\* list the step is one run of _get (one call record, one entry in the public
\* window) and the call sends at most one request.
C11_ChartPeriodValidation ==
    /\ [][\A n \in {Len(calls')} :
             (n = Len(calls) + 1 /\ IsChartCall(calls'[n])) =>
             IF HasListedPeriod(calls'[n])
             THEN /\ calls'[n].method = "get"
                  /\ calls'[n].checked
                  /\ calls'[n].pc = "awaitRate"
                  /\ publicRateCount' = Append(publicRateCount, now)
                  /\ microtasks' = Append(microtasks, n)
                  /\ tradingRateCount' = tradingRateCount
             ELSE /\ calls'[n].method # "get"
                  /\ calls'[n].pc = "rejected"
                  /\ calls'[n].result = Thrown(PeriodMessage)
                  /\ publicRateCount' = publicRateCount
                  /\ tradingRateCount' = tradingRateCount
                  /\ microtasks' = microtasks]_vars
    /\ [](\A i \in 1..Len(calls) :
              /\ (IsChartCall(calls[i]) /\ ~HasListedPeriod(calls[i])) =>
                 (/\ calls[i].pc = "rejected"
                  /\ calls[i].result = Thrown(PeriodMessage)
                  /\ ~calls[i].checked
                  /\ calls[i].requests = 0
                  /\ ~Contains(microtasks, i))
              /\ (IsChartCall(calls[i]) /\ HasListedPeriod(calls[i])) =>
                 (/\ calls[i].checked
                  /\ calls[i].requests <= 1
                  /\ calls[i].pc \in {"awaitHttp", "resolved"} => calls[i].requests = 1))
    /\ [](Len(publicRateCount) =
              Cardinality({i \in 1..Len(calls) :
                              IsChartCall(calls[i]) /\ HasListedPeriod(calls[i])}))

\* a request with period 666 was rejected and one with period 14400 was answered
C11_Witness ==
    /\ \E i \in 1..Len(calls) :
           /\ calls[i].query[5] = <<"period", "666">>
           /\ calls[i].pc = "rejected"
    /\ \E i \in 1..Len(calls) :
           /\ calls[i].query[5] = <<"period", "14400">>
           /\ calls[i].pc = "resolved"
           /\ calls[i].requests = 1


\* the calls whose request ended with the error event, not with a response
FailedInTransport ==
    {i \in 1..Len(calls) :
        Settled(calls[i]) /\ calls[i].requests = 1 /\ calls[i].response = NoResponse}

\* C12: a get or post call whose request ends with the error event of the transport
\* is rejected with that error: its message is the text of the transport error and
\* nothing else, it carries no response, no status and no 'Returned error' wrapping.
C12_TransportErrorUnmodified ==
    \A i \in FailedInTransport :
        /\ calls[i].pc = "rejected"
        /\ ~calls[i].result.ok
        /\ calls[i].result.message = <<"request error">>
        /\ ~Contains(calls[i].result.message, "HTTP ")
        /\ ~Contains(calls[i].result.message, " Returned error: ")

\* a public and a private call both lost their connection
C12_Witness ==
    /\ \E i \in FailedInTransport : calls[i].method = "get"
    /\ \E i \in FailedInTransport : calls[i].method = "post" /\ calls[i].nonce # NoNonce


\* the call was stopped before its request: by the validation of its arguments, by
\* the credential check, or by the rate-limit check once it resumed
StoppedByChecks(c) ==
    /\ c.pc = "rejected"
    /\ \/ c.result = Thrown(PeriodMessage)
       \/ c.result = Thrown(CredentialsMessage)
       \/ c.checked /\ ~c.admitted

\* the call has left the checks of its primitive behind it
PassedChecks(c) == c.pc # "awaitRate" /\ ~StoppedByChecks(c)

\* the request of the call ended in an error: of the transport, of the HTTP status,
\* or reported by the exchange in the error field of the body
RequestFailed(c) ==
    \/ c.requests = 1 /\ Settled(c) /\ c.response = NoResponse
    \/ /\ c.response # NoResponse
       /\ \/ c.response.statusCode \notin 200..299
          \/ HasOwnProperty(JsonParse(c.response.data), "error")

\* every call sends at most one request: one once it is past both checks (Bitfinex
\* _get has none to pass), none when a check stopped it
AtMostOneRequest(c) ==
    /\ c.requests <= 1
    /\ PassedChecks(c) => c.requests = 1
    /\ StoppedByChecks(c) => c.requests = 0
    /\ c.response # NoResponse => (c.requests = 1 /\ Settled(c))

\* C13: no call sends a second request, a call sends one exactly when it passed the
\* credential and rate-limit checks, and a transport, HTTP-status or API error of
\* its request ends the call as a rejection.
C13_NoRetryErrorsReject ==
    \A i \in 1..Len(calls) :
        /\ AtMostOneRequest(calls[i])
        /\ RequestFailed(calls[i]) => (calls[i].pc = "rejected" /\ ~calls[i].result.ok)

\* the part of C13 about the number of requests
NoSecondRequest == \A i \in 1..Len(calls) : AtMostOneRequest(calls[i])


\* the client classes whose constructor falls back to process.env
ReadsEnv == exchange \in {"bitfinex", "bittrex"}

\* C14: the credentials of a client are what its construction fixed, whatever ran
\* since and whatever process.env holds now: a supplied argument (any string, the
\* empty one included) wins over the variable of the exchange, and the variable, as
\* it was at construction, is used when the argument was not supplied.
C14_ArgumentFirst ==
    LET a == construction.args
        e == construction.env
    IN  /\ a.key # Undefined => key = a.key
        /\ a.secret # Undefined => secret = a.secret
        /\ (a.key = Undefined /\ ReadsEnv) => key = e.key
        /\ (a.secret = Undefined /\ ReadsEnv) => secret = e.secret
        /\ (a.key = Undefined /\ ~ReadsEnv) => key = Undefined
        /\ (a.secret = Undefined /\ ~ReadsEnv) => secret = Undefined

\* C14, amended: as above, but for Bitfinex v1 and Bittrex an empty string counts
\* as an argument that was not supplied; Poloniex reads no variable and keeps its
\* arguments as they are.
C14_GivenArgumentFirst ==
    LET a == construction.args
        e == construction.env
    IN  /\ (ReadsEnv /\ Given(a.key)) => key = a.key
        /\ (ReadsEnv /\ Given(a.secret)) => secret = a.secret
        /\ (ReadsEnv /\ ~Given(a.key)) => key = e.key
        /\ (ReadsEnv /\ ~Given(a.secret)) => secret = e.secret
        /\ ~ReadsEnv => (key = a.key /\ secret = a.secret)

\* a Bitfinex client constructed without a key, with a secret argument, while the
\* variables were set; they were changed afterwards and a private call was signed
C14_Witness ==
    /\ exchange = "bitfinex"
    /\ construction.args = Arguments(Undefined, "secret")
    /\ construction.env = EnvSet
    /\ env = EnvOther
    /\ key = "env key"
    /\ \E i \in 1..Len(calls) :
           /\ calls[i].method = "post"
           /\ calls[i].requests = 1
           /\ calls[i].sign[2] = "secret"


\* the timestamps of the attempts of one class, in the order their checks ran
ClassTimestamps(m) ==
    LET q == ClassLog(m)
    IN  [k \in 1..Len(q) |-> q[k].ts]

\* the attempts of the class up to attempt k that are less than 1000 ms older than it
RecentAttempts(q, k) == {j \in 1..k : q[j].ts > q[k].ts - 1000}

\* C15: each class of Poloniex has its own window and its own limit: the public
\* window holds the timestamps of the public calls and nothing else, the trading
\* window those of the private calls; an attempt is admitted exactly when the
\* attempts of its own class in the trailing 1000 ms, itself included, are at most
\* the limit of the class. Hence 6 public and tradingRate private calls made within
\* one second are all admitted.
C15_SeparateWindows ==
    exchange = "poloniex" =>
        /\ publicRateCount = ClassTimestamps("get")
        /\ tradingRateCount = ClassTimestamps("post")
        /\ \A m \in {"get", "post"} :
               LET q == ClassLog(m)
               IN  \A k \in 1..Len(q) :
                       q[k].admitted =
                           AtMost(Cardinality(RecentAttempts(q, k)), ClassLimit(m))

\* 6 public calls and tradingRate private calls, interleaved within one second, were
\* all answered
C15_Witness ==
    /\ CountMethod("get") = PublicRate
    /\ CountMethod("post") = tradingRate.n
    /\ \A i \in 1..Len(calls) : calls[i].pc = "resolved" /\ calls[i].ts < T0 + 1000
    /\ calls[1].method = "post"
    /\ calls[2].method = "get"
    /\ calls[Len(calls)].method = "post"


\* C16: a call that has sent a request, through whichever primitive of whichever
\* client, ran the rate-limit check of its class first and was admitted by it.
C16_CheckBeforeRequest ==
    \A i \in 1..Len(calls) :
        calls[i].requests > 0 => (calls[i].checked /\ calls[i].admitted)


\* C17: between the rate-limit check of a private call and its nonce and signature no step
\* of another call runs: while a call has been checked and has not yet gone on to
\* its nonce (or to its rate-limit error), the next step that touches any call is
\* that call's own.
C17_CheckToNonceAtomic ==
    [][\A i \in 1..Len(calls) :
          (calls[i].method = "post" /\ calls[i].pc = "awaitRate" /\ calls' # calls) =>
          calls'[i].pc # "awaitRate"]_vars


\* the rate limiter of the client's class
ClientCheckRateLimit(ts, limit, rates) ==
    IF exchange = "poloniex"
    THEN PoloniexCheckRateLimit(ts, limit, rates)
    ELSE ApiCheckRateLimit(ts, limit, rates)

\* the window after the checks of the attempts q[1..k], run in that order on an
\* empty window
RECURSIVE WindowAfter(_, _, _)
WindowAfter(q, k, limit) ==
    IF k = 0 THEN <<>>
    ELSE ClientCheckRateLimit(q[k].ts, limit, WindowAfter(q, k - 1, limit)).rates

\* the window of the class as the client holds it
ClassWindow(m) == IF m = "get" THEN publicRateCount ELSE tradingRateCount

\* C18: with calls in flight at once, the window of a class is what the checks of
\* its attempts leave when run in issuance order, and the decision on an attempt is
\* the one the limiter gives on the attempts issued before it: it is taken in the
\* step that issues the call and never changes; a step that issues no call (a
\* continuation, a response, an error of the transport, the clock) changes no window.
C18_AdmissionAtIssuance ==
    /\ [][Len(calls') = Len(calls) =>
             /\ publicRateCount' = publicRateCount
             /\ tradingRateCount' = tradingRateCount
             /\ \A i \in 1..Len(calls) :
                    /\ calls'[i].checked = calls[i].checked
                    /\ calls'[i].admitted = calls[i].admitted
                    /\ calls'[i].ts = calls[i].ts]_vars
    /\ [](\A m \in {"get", "post"} :
              LET q == ClassLog(m)
                  L == ClassLimit(m)
              IN  /\ ClassWindow(m) = WindowAfter(q, Len(q), L)
                  /\ \A k \in 1..Len(q) :
                         q[k].admitted =
                             ClientCheckRateLimit(q[k].ts, L,
                                                  WindowAfter(q, k - 1, L)).admitted)

\* three private calls in flight at once on a client limited to two per second: the
\* second was answered while the first still waits, the third was rejected
C18_Witness ==
    /\ Len(calls) = 3
    /\ tradingRate = Rate(2, 1)
    /\ \A i \in 1..3 : calls[i].method = "post" /\ calls[i].ts = T0
    /\ calls[1].pc = "awaitHttp"
    /\ calls[2].pc = "resolved"
    /\ RejectedByRateLimit(calls[3])


\* C19: on a clock that never steps back, the window of a class holds, after every
\* check, no entry that is 1000 ms or more older than the timestamp of that check
\* (its last entry), in the Poloniex client and in the clients built on API alike.
C19_EvictionInPlace ==
    \A m \in {"get", "post"} :
        LET w == ClassWindow(m)
        IN  \A k \in 1..Len(w) : w[k] > w[Len(w)] - 1000

\* the part of C19 about the clients built on API
ApiEvictionInPlace == exchange # "poloniex" => C19_EvictionInPlace


\* the admitted attempts of the class up to attempt k that are less than 1000 ms
\* older than it
RecentAdmitted(q, k) == {j \in RecentAttempts(q, k) : j = k \/ q[j].admitted}

\* C20: an attempt the limiter refused stays recorded: its timestamp is in the
\* window of its class for as long as it is less than 1000 ms older than the
\* latest check, and an attempt made less than 1000 ms after it is decided on the
\* count of all attempts of the trailing 1000 ms, the refused ones included.
C20_RejectedAttemptCounts ==
    \A m \in {"get", "post"} :
        LET q == ClassLog(m)
            w == ClassWindow(m)
        IN  \A j \in 1..Len(q) :
                ~q[j].admitted =>
                /\ q[j].ts > q[Len(q)].ts - 1000 => \E n \in 1..Len(w) : w[n] = q[j].ts
                /\ \A k \in (j + 1)..Len(q) :
                       q[k].ts - q[j].ts < 1000 =>
                       /\ j \in RecentAttempts(q, k)
                       /\ q[k].admitted =
                              AtMost(Cardinality(RecentAttempts(q, k)), ClassLimit(m))

\* an attempt was refused although, counting itself, no more admitted attempts than
\* the limit fall in its trailing 1000 ms: a refused attempt took the slot
C20_Witness ==
    /\ exchange = "bitfinex"
    /\ LET q == ClassLog("post")
       IN  \E k \in 1..Len(q) :
               /\ RejectedByRateLimit(q[k])
               /\ AtMost(Cardinality(RecentAdmitted(q, k)), tradingRate)
               /\ \E j \in RecentAttempts(q, k) : j < k /\ ~q[j].admitted


\* the checks up to check k whose timestamp d has ts - 1000 < d <= ts, for the
\* timestamp ts of check k
InWindow(log, k) ==
    {j \in 1..k : log[k].ts - 1000 < log[j].ts /\ log[j].ts <= log[k].ts}

\* C21: with timestamps that never decrease, each limiter compares with the limit
\* exactly the number of recorded timestamps d with ts - 1000 < d <= ts, the new one
\* included: it answers true exactly when that number is at most the limit, and the
\* array API compares the length of has that many entries. An entry exactly 1000 ms
\* old is not among them, an entry 999 ms old is.
C21_OpenBoundary ==
    \A k \in 1..Len(bench.log) :
        LET e == bench.log[k]
            n == Cardinality(InWindow(bench.log, k))
        IN  /\ e.poloniex = AtMost(n, bench.limit)
            /\ e.api = AtMost(n, bench.limit)
            /\ Len(e.apiAfter) = n
            /\ \A j \in 1..(k - 1) :
                   /\ bench.log[j].ts = e.ts - 1000 => j \notin InWindow(bench.log, k)
                   /\ bench.log[j].ts = e.ts - 999 => j \in InWindow(bench.log, k)

\* limit 1: a check 999 ms after the first was refused by both limiters, and a
\* check exactly 1000 ms after that one was admitted by both
C21_Witness ==
    /\ bench.limit = Rate(1, 1)
    /\ Len(bench.log) = 3
    /\ bench.log[2].ts = bench.log[1].ts + 999
    /\ bench.log[3].ts = bench.log[2].ts + 1000
    /\ ~bench.log[2].poloniex /\ ~bench.log[2].api
    /\ bench.log[3].poloniex /\ bench.log[3].api

\* the private calls issued before call i that read the same timestamp and reached
\* the rate-limit check
SameMsBefore(i) ==
    {j \in 1..(i - 1) :
        calls[j].method = "post" /\ calls[j].checked /\ calls[j].ts = calls[i].ts}

\* C22: for private calls issued one after another, every admitted call gets
\* nonce = ts * 100 + k, k being the number of earlier attempts (admitted or
\* rejected) recorded with the same ts; the first call of a millisecond gets
\* ts * 100 and the next one ts * 100 + 1.
C22_NonceFormula ==
    \A i \in 1..Len(calls) :
        (calls[i].method = "post" /\ calls[i].nonce # NoNonce) =>
        /\ calls[i].admitted
        /\ calls[i].nonce = calls[i].ts * 100 + Cardinality(SameMsBefore(i))
        /\ SameMsBefore(i) = {} => calls[i].nonce = calls[i].ts * 100
        /\ Cardinality(SameMsBefore(i)) = 1 => calls[i].nonce = calls[i].ts * 100 + 1

\* two private calls of one millisecond were admitted after an earlier millisecond
\* had its own call: nonces ts * 100 and ts * 100 + 1
C22_Witness ==
    /\ Len(calls) >= 3
    /\ calls[1].ts < calls[2].ts
    /\ calls[2].ts = calls[3].ts
    /\ calls[2].nonce = calls[2].ts * 100
    /\ calls[3].nonce = calls[3].ts * 100 + 1


\* the admitted private calls of the Poloniex client, once their request is written
Signed == {i \in 1..Len(calls) : calls[i].method = "post" /\ calls[i].requests > 0}

\* C23: for every admitted Poloniex private call the body written is the
\* url-encoded command map with the generated nonce added, the Sign header is the
\* sha512 HMAC keyed by the client's secret over exactly that body (equal for equal
\* command map, secret and nonce), and the Key header is the client's key.
C23_SignedBody ==
    exchange = "poloniex" =>
    /\ \A i \in Signed :
           /\ calls[i].admitted /\ calls[i].nonce # NoNonce
           /\ calls[i].body =
                  "nonce=" \o ToString(calls[i].nonce) \o "&" \o
                  QuerystringStringify(calls[i].query)
           /\ calls[i].sign = <<"sha512", secret, calls[i].body>>
           /\ calls[i].keyHeader = key
    /\ \A i, j \in Signed :
           (calls[i].query = calls[j].query /\ calls[i].nonce = calls[j].nonce) =>
           calls[i].sign = calls[j].sign

\* a call with a parameter that needs escaping was signed after a call with another
\* command, in the same millisecond
C23_Witness ==
    /\ exchange = "poloniex"
    /\ secret = "other secret"
    /\ Len(calls) >= 2
    /\ {1, 2} \subseteq Signed
    /\ calls[1].ts = calls[2].ts
    /\ calls[1].body = "nonce=100000&command=returnBalances"
    /\ calls[2].body = "nonce=100001&command=returnOpenOrders&currencyPair=BTC%26ETH"
    /\ calls[1].sign # calls[2].sign


\* C24: after API._checkRateLimit(ts, limit, window), for any sequence of
\* timestamps: ts is the last entry of the window, the entries that remain are the
\* tail of the window as it was with ts pushed (so they keep their order), and
\* every entry removed was expired (d <= ts - 1000).
C24_NoSilentDrop ==
    \A k \in 1..Len(bench.log) :
        LET e       == bench.log[k]
            pushed  == Append(e.apiBefore, e.ts)
            removed == Len(pushed) - Len(e.apiAfter)
        IN  /\ Len(e.apiAfter) > 0
            /\ e.apiAfter[Len(e.apiAfter)] = e.ts
            /\ removed >= 0
            /\ e.apiAfter = SubSeq(pushed, removed + 1, Len(pushed))
            /\ \A j \in 1..removed : pushed[j] <= e.ts - 1000

\* timestamps went backwards and a later call removed two expired entries while an
\* expired entry behind an unexpired one stayed
C24_Witness ==
    \E k \in 1..Len(bench.log) :
        LET e == bench.log[k]
        IN  /\ Len(e.apiBefore) + 1 - Len(e.apiAfter) >= 2
            /\ \E j \in 1..(Len(e.apiBefore) - 1) : e.apiBefore[j] > e.apiBefore[j + 1]
            /\ \E j \in 1..Len(e.apiAfter) : e.apiAfter[j] <= e.ts - 1000


\* C25: every issued call eventually settles, given that the network ends every
\* request with a complete response or an error; a call rejected by the
\* credential, parameter or rate-limit check settles with no request sent; and a
\* call waiting for its request leaves that wait only when the response ends or
\* the request errors: nothing else (no timeout) settles it.
C25_EventuallySettles ==
    /\ \A i \in 1..LiveCalls :
           (Len(calls) >= i) ~> (Len(calls) >= i /\ Settled(calls[i]))
    /\ [](\A i \in 1..Len(calls) :
              StoppedByChecks(calls[i]) =>
              calls[i].requests = 0 /\ calls[i].response = NoResponse)
    /\ [][\A i \in 1..Len(calls) :
              (calls[i].pc = "awaitHttp" /\ calls'[i].pc # "awaitHttp") =>
              /\ Settled(calls'[i])
              /\ \/ calls'[i].response # NoResponse
                 \/ calls'[i].result = Thrown(TransportMessage)]_vars

\* the request of the first call has not ended, and a call issued after it was
\* admitted and has resolved
C25_Witness ==
    /\ Len(calls) = 2
    /\ calls[1].pc = "awaitHttp"
    /\ calls[2].pc = "resolved"
    /\ calls[2].requests = 1


\* C26: run side by side from empty windows on the same non-decreasing positive
\* timestamps with the same limit, Poloniex._checkRateLimit and
\* API._checkRateLimit return the same decision at every step; the windows they
\* keep may differ (Poloniex keeps every timestamp, API drops expired ones).
C26_SameDecisions ==
    \A k \in 1..Len(bench.log) :
        LET e == bench.log[k]
        IN  /\ e.poloniex = e.api
            /\ Len(e.poloniexAfter) = k
            /\ Len(e.apiAfter) <= k

\* the two windows differ, and the limiters agreed on an admission after they had
\* agreed on a rejection
C26_Witness ==
    \E j, k \in 1..Len(bench.log) :
        /\ j < k
        /\ ~bench.log[j].poloniex /\ ~bench.log[j].api
        /\ bench.log[k].poloniex /\ bench.log[k].api
        /\ bench.log[k].poloniexAfter # bench.log[k].apiAfter


\* the private calls that were given a nonce
Nonced == {i \in 1..Len(calls) : calls[i].method = "post" /\ calls[i].nonce # NoNonce}

\* the same-millisecond offset in the nonce of call i
Offset(i) == calls[i].nonce - calls[i].ts * 100

\* C27: for private calls issued one after another, the offset added to ts * 100
\* in the nonce of an admitted call is at most tradingRate - 1; so with
\* tradingRate <= 100 every nonce of millisecond ts is below (ts + 1) * 100 and
\* nonces of different milliseconds are never equal.
C27_OffsetBelowRate ==
    /\ \A i \in Nonced :
           /\ Offset(i) >= 0
           /\ Offset(i) * tradingRate.d <= tradingRate.n - tradingRate.d
    /\ tradingRate.n <= 100 * tradingRate.d =>
           /\ \A i \in Nonced : calls[i].nonce < (calls[i].ts + 1) * 100
           /\ \A i, j \in Nonced :
                  calls[i].ts # calls[j].ts => calls[i].nonce # calls[j].nonce

\* with tradingRate 100, the hundredth admitted call of a millisecond got the
\* offset 99
C27_Witness ==
    /\ tradingRate = Rate(100, 1)
    /\ \E i \in Nonced : calls[i].admitted /\ Offset(i) = 99


\* the attempts so far arrived at the constant spacing s
ConstantSpacing(s) ==
    \A j \in 1..(Len(bench.log) - 1) : bench.log[j + 1].ts - bench.log[j].ts = s

\* C28: attempts that arrive from the start at a constant spacing s with
\* s * limit < 1000 ms: the first limit attempts are admitted and every later one
\* is rejected, by both limiters, since each rejected attempt is recorded and the
\* window stays over the limit.
C28_RetryStarvation ==
    Len(bench.log) >= 2 =>
    LET s == bench.log[2].ts - bench.log[1].ts
    IN  (ConstantSpacing(s) /\ s * bench.limit.n < 1000 * bench.limit.d) =>
        \A k \in 1..Len(bench.log) :
            LET e == bench.log[k]
            IN  /\ e.poloniex = AtMost(k, bench.limit)
                /\ e.api = AtMost(k, bench.limit)
                /\ ~AtMost(k, bench.limit) =>
                       /\ ~AtMost(Len(e.apiAfter), bench.limit)
                       /\ e.apiAfter[Len(e.apiAfter)] = e.ts
                       /\ e.poloniexAfter[Len(e.poloniexAfter)] = e.ts

\* limit 2, an attempt every 334 ms: the fourth attempt, more than 1000 ms after
\* the first, is rejected like the third
C28_Witness ==
    /\ bench.limit = Rate(2, 1)
    /\ Len(bench.log) = 4
    /\ ConstantSpacing(334)
    /\ bench.log[2].poloniex /\ bench.log[2].api
    /\ ~bench.log[3].poloniex /\ ~bench.log[3].api
    /\ ~bench.log[4].poloniex /\ ~bench.log[4].api


\* C29: after any history of admitted and rejected attempts, an attempt made at
\* least 1000 ms after the one before it is admitted, by both limiters (limit at
\* least 1, non-decreasing timestamps); it is alone in the window of
\* API._checkRateLimit.
C29_RecoveryAfterPause ==
    \A k \in 2..Len(bench.log) :
        bench.log[k].ts - bench.log[k - 1].ts >= 1000 =>
        /\ bench.log[k].poloniex
        /\ bench.log[k].api
        /\ bench.log[k].apiAfter = <<bench.log[k].ts>>

\* limit 1: an admitted attempt, two rejected ones, then a pause of exactly 1000 ms
\* and an admitted attempt
C29_Witness ==
    /\ bench.limit = Rate(1, 1)
    /\ Len(bench.log) = 4
    /\ bench.log[1].api /\ bench.log[1].poloniex
    /\ ~bench.log[2].api /\ ~bench.log[2].poloniex
    /\ ~bench.log[3].api /\ ~bench.log[3].poloniex
    /\ bench.log[4].ts = bench.log[3].ts + 1000
    /\ bench.log[4].api /\ bench.log[4].poloniex


\* the private attempts that reached the rate-limit check
Private == {i \in 1..Len(calls) : calls[i].method = "post" /\ calls[i].checked}

\* C30: a Bitfinex client constructed without a tradingRate, or with 0, has
\* tradingRate 90 / 60 = 1.5; a private call is admitted exactly when no other
\* private attempt was recorded in the 1000 ms before it, so two admitted private
\* calls are at least 1000 ms apart and a second attempt inside the window is
\* rejected.
C30_DefaultRateOnePerWindow ==
    exchange = "bitfinex" =>
    /\ tradingRate = Rate(90, 60)
    /\ \A i \in Private :
           calls[i].admitted <=>
           ~\E j \in Private : j < i /\ calls[j].ts > calls[i].ts - 1000
    /\ \A i, j \in Private :
           (i < j /\ calls[i].admitted /\ calls[j].admitted) =>
           calls[j].ts - calls[i].ts >= 1000

\* an admitted private call, a second attempt 999 ms later rejected, and a third
\* one 1000 ms after the rejected one admitted
C30_Witness ==
    /\ exchange = "bitfinex"
    /\ Len(calls) = 3
    /\ Private = {1, 2, 3}
    /\ calls[2].ts = calls[1].ts + 999
    /\ calls[3].ts = calls[2].ts + 1000
    /\ calls[1].admitted /\ ~calls[2].admitted /\ calls[3].admitted
    /\ calls[2].pc = "rejected"
    /\ calls[3].requests = 1


============================================================================
